---- MODULE Spec2Model ----
(***************************************************************************)
(* Wunderkind voice assistant: the shared WorldModel, the hardware monitor *)
(* of HardwareIntegration and the prompt assembly of ChatHandlerWorld.     *)
(*                                                                         *)
(* Specifications                                                          *)
(*   Spec     WorldModel called by two threads (monitor, dialogue).        *)
(*   SpecHW   HardwareIntegration._monitor_loop and set_led on a           *)
(*            WorldModel.                                                  *)
(*   SpecCtx  prompt assembly of generate_response.                        *)
(*                                                                         *)
(* CPython runs one bytecode at a time under the interpreter lock: a       *)
(* list.append, a dict store, a clear() or a str.join over str items is    *)
(* one step; two statements, or two reads of the same attribute inside one *)
(* expression, are two steps between which the other thread may run.       *)
(***************************************************************************)
EXTENDS Integers, Sequences, FiniteSets, TLC

----------------------------------------------------------------------------
(* Bounds *)

\* operations the two threads issue on the WorldModel, in total
MaxOps == 3
\* iterations of the monitor loop
MaxPolls == 2
\* pin accesses that fail with a hardware error
MaxFaults == 1
\* messages appended to the conversation history
MaxHistLen == 3
\* largest configured max_history
MaxMaxHistory == 3
\* WorldModel writes of the monitor thread while the dialogue runs
MaxEvents == 1

----------------------------------------------------------------------------
(* Values *)

Threads == {"monitor", "dialogue"}
Keys == {"k1", "k2"}
Values == {"v1", "v2"}
None == "None"

\* the n-th text appended by thread t: texts of distinct calls are distinct
Text(t, n) == <<t, n>>
\* the separator of "; ".join
Sep == <<"; ", 0>>

\* RPi.GPIO levels
LOW == 0
HIGH == 1
\* a local that is not bound yet
Unbound == -1

Components == {"button", "motion_sensor", "led"}
EventTypes == {"button_press", "motion_detected"}
\* the handlers AIAssistant registers, each for its event type
Handlers == {"_handle_button_press", "_handle_motion_detected"}
\* a callback that raises when it is called
failing_callback == "failing_callback"
Registrations ==
    {<<"button_press", "_handle_button_press">>,
     <<"motion_detected", "_handle_motion_detected">>}
\* the registrations of the monitor alone: a second callback for the button
\* replaces the first
MonitorRegistrations == Registrations \cup {<<"button_press", failing_callback>>}
\* the methods class WorldModel defines
WorldModelMethods ==
    {"add_fact", "update_hardware_event", "set_state", "get_state", "get_summary",
     "update_user_preference", "clear"}

\* config.get("MAX_CONVERSATION_HISTORY", 10)
DefaultMaxHistory == 10

\* a text is the sequence of its pieces; the user's utterances
Prompts == {<<"hello">>, <<"lights on">>}
\* what listen() returns: nothing, or an utterance
Heard == {<<>>, <<"hello">>, <<"Shutdown", " ", "now">>}
\* the replies of the language model
Replies ==
    {<<"Sure, ", "I learned that", " ", "the sky is blue", ".">>,
     <<"I noticed ", "You prefer", " ", "Dark mode", ".">>,
     <<"the ", "Button", " and ", "the ", "led">>,
     <<"I learned that", " ", "you prefer", " ", "tea", ".", " ",
       "I learned that", " ", "You prefer", " ", "LED", ".">>,
     <<"LED", " ", "called", " ", "Sensors">>,
     <<"ok">>}
\* the pieces that hold a keyword inside a longer word
Inside == {<<"led", "called">>, <<"sensor", "sensors">>}
\* the characters of strip(". ")
StripChars == {".", " "}
\* the keywords of _update_world_model_from_response, in its order
hardware_keywords == <<"button", "motion", "sensor", "led">>

VARIABLES
    \* WorldModel (src/world_model.py)
    state, facts, user_preferences, hardware_events,
    \* the callers of the WorldModel
    pc, ops, sec, lines, result,
    \* history of the calls: add_fact and update_hardware_event calls made by
    \* each thread, clear() calls, the values given to set_state for each key
    \* since the last state.clear(), the values of the collections since a
    \* get_summary call began
    added, recorded, clears, sets, seen,
    \* the pin levels, and HardwareIntegration (hardware_integration.py):
    \* _stop_monitoring, event_callbacks, the position of the monitor thread
    \* and of the dialogue thread, the locals of _monitor_loop and _handle_event
    pins, stop_monitoring_flag, event_callbacks, mpc, dpc,
    button_state, motion_state, new_button_state, new_motion_state, event_type,
    \* loop iterations and failed pin accesses so far; the last value the
    \* monitor observed, or set_led wrote, for each component
    polls, faults, observed,
    \* the callback _handle_event is running; the polling loops alive; the
    \* time a live loop has slept in callbacks since the stop signal was set,
    \* in tenths of a second; the pins that changed while no loop was alive
    \* and that the next loop has not polled yet
    callback, alive, elapsed, missed,
    \* ChatHandlerWorld (chat_handler_world.py): the history, the configured
    \* max_history, the messages of the last prompt, the reply being handled,
    \* the position in generate_response, and the clock of time(); how the
    \* last call of generate_response ended, and the errors logged so far;
    \* the attempts APIHandler.generate_response has made for the call in hand
    conversation_history, max_history, messages, response_text, turn, clock,
    outcome, logged, attempt,
    \* AIAssistant (main.py): running, the position of the main loop, and
    \* the user_input of _handle_interaction; the calls of GPIO.cleanup() made
    running, mainpc, user_input, cleanups

wmVars == <<state, facts, user_preferences, hardware_events>>
callVars == <<pc, ops, sec, lines, result>>
histVars == <<added, recorded, clears, sets, seen>>
hwVars == <<pins, stop_monitoring_flag, event_callbacks, mpc, dpc,
            button_state, motion_state, new_button_state, new_motion_state,
            event_type, polls, faults, observed, callback, alive, elapsed, missed>>
chatVars == <<conversation_history, max_history, messages, response_text, turn, clock,
              outcome, logged, attempt>>
mainVars == <<running, mainpc, user_input, cleanups>>
vars == <<wmVars, callVars, histVars, hwVars, chatVars, mainVars>>

----------------------------------------------------------------------------
(* Python lists and dicts *)

IsPrefix(s, t) == Len(s) <= Len(t) /\ SubSeq(t, 1, Len(s)) = s

\* an append that stores into the last slot it saw: a lost update
list_append_lost(l, x) == IF Len(l) = 0 THEN <<x>> ELSE [l EXCEPT ![Len(l)] = x]

\* an insert at the front
list_append_front(l, x) == <<x>> \o l

\* list.append
list_append(l, x) == Append(l, x)

\* a dict is the sequence of its <<key, value>> items in insertion order
dict_index(d, k) ==
    IF \E i \in 1..Len(d) : d[i][1] = k
    THEN CHOOSE i \in 1..Len(d) : d[i][1] = k /\ \A j \in 1..(i-1) : d[j][1] # k
    ELSE 0

\* a store that always adds an item
dict_set_dup(d, k, v) == Append(d, <<k, v>>)

\* d[k] = v
dict_set(d, k, v) ==
    IF dict_index(d, k) = 0
    THEN Append(d, <<k, v>>)
    ELSE [d EXCEPT ![dict_index(d, k)] = <<k, v>>]

\* d.get(k)
dict_get(d, k) == IF dict_index(d, k) = 0 THEN None ELSE d[dict_index(d, k)][2]

\* list(d.keys())
dict_keys(d) == [i \in 1..Len(d) |-> d[i][1]]

\* sep.join(l)
RECURSIVE join(_)
join(l) ==
    IF Len(l) = 0 THEN <<>>
    ELSE IF Len(l) = 1 THEN <<l[1]>>
    ELSE <<l[1], Sep>> \o join(Tail(l))

----------------------------------------------------------------------------
(* WorldModel.get_summary, one line of the report per collection *)

Sections == 1..4

Collection(i) ==
    CASE i = 1 -> facts
      [] i = 2 -> hardware_events
      [] i = 3 -> state
      [] i = 4 -> user_preferences

\* the text appended for a collection whose truth test succeeded
SectionText(i, c) ==
    CASE i = 1 -> [head |-> "Facts: ", body |-> join(c)]
      [] i = 2 -> [head |-> "Hardware Events: ", body |-> join(c)]
      [] i = 3 -> [head |-> "State keys: ", body |-> dict_keys(c)]
      [] i = 4 -> [head |-> "User Preferences: ", body |-> c]

\* the text appended for a collection whose truth test failed
EmptyText(i) ==
    CASE i = 1 -> [head |-> "No known facts yet.", body |-> <<>>]
      [] i = 2 -> [head |-> "No hardware events recorded.", body |-> <<>>]
      [] i = 3 -> [head |-> "No internal state set yet.", body |-> <<>>]
      [] i = 4 -> [head |-> "No user preferences stored.", body |-> <<>>]

\* one line of get_summary evaluated without interruption on the value c
SummaryLine(i, c) == IF c # <<>> THEN SectionText(i, c) ELSE EmptyText(i)

\* get_summary evaluated without interruption
SummaryOf(f, e, s, p) ==
    <<SummaryLine(1, f), SummaryLine(2, e), SummaryLine(3, s), SummaryLine(4, p)>>

----------------------------------------------------------------------------
(* The callers of the WorldModel *)

NoResult == [op |-> "none", key |-> None, val |-> None]
\* how a call of generate_response ended: not yet, with a text, with an error
NoOutcome == [kind |-> "none", text |-> <<>>]
Returned(text) == [kind |-> "return", text |-> text]
Raised == [kind |-> "raise", text |-> <<>>]
NoSeen == <<{}, {}, {}, {}>>

InSummary(t) == pc[t] \in {"sum_test", "sum_read"}
InClear(t) == pc[t] \in {"clear_facts", "clear_events", "clear_prefs"}
Tracking(t) == InSummary(t) \/ result[t].op = "get_summary"

\* the values each collection held since the get_summary call of a thread
\* began; w is the thread that takes the step
Observe(w) ==
    seen' = [u \in Threads |->
               IF u = w THEN NoSeen
               ELSE IF Tracking(u)
               THEN <<seen[u][1] \cup {facts'}, seen[u][2] \cup {hardware_events'},
                      seen[u][3] \cup {state'}, seen[u][4] \cup {user_preferences'}>>
               ELSE seen[u]]

CanCall(t) == pc[t] = "idle" /\ ops["monitor"] + ops["dialogue"] < MaxOps

\* a call that is one step: the caller is back in its own code afterwards
Called(t) ==
    /\ ops' = [ops EXCEPT ![t] = @ + 1]
    /\ result' = [result EXCEPT ![t] = NoResult]
    /\ UNCHANGED <<pc, sec, lines>>

add_fact(t) ==
    /\ CanCall(t)
    /\ facts' = list_append(facts, Text(t, added[t] + 1))
    /\ added' = [added EXCEPT ![t] = @ + 1]
    /\ UNCHANGED <<state, user_preferences, hardware_events>>
    /\ Called(t) /\ Observe(t)
    /\ UNCHANGED <<recorded, clears, sets, hwVars, chatVars, mainVars>>

update_hardware_event(t) ==
    /\ CanCall(t)
    /\ hardware_events' = list_append(hardware_events, Text(t, recorded[t] + 1))
    /\ recorded' = [recorded EXCEPT ![t] = @ + 1]
    /\ UNCHANGED <<state, facts, user_preferences>>
    /\ Called(t) /\ Observe(t)
    /\ UNCHANGED <<added, clears, sets, hwVars, chatVars, mainVars>>

\* a set_state that keeps the preferences in the same namespace
set_state_shared(t, k, v) ==
    /\ CanCall(t)
    /\ state' = dict_set(state, k, v)
    /\ user_preferences' = dict_set(user_preferences, k, v)
    /\ sets' = [sets EXCEPT ![k] = Append(@, v)]
    /\ UNCHANGED <<facts, hardware_events>>
    /\ Called(t) /\ Observe(t)
    /\ UNCHANGED <<added, recorded, clears, hwVars, chatVars, mainVars>>

set_state(t, k, v) ==
    /\ CanCall(t)
    /\ state' = dict_set(state, k, v)
    /\ sets' = [sets EXCEPT ![k] = Append(@, v)]
    /\ UNCHANGED <<facts, user_preferences, hardware_events>>
    /\ Called(t) /\ Observe(t)
    /\ UNCHANGED <<added, recorded, clears, hwVars, chatVars, mainVars>>

get_state(t, k) ==
    /\ CanCall(t)
    /\ ops' = [ops EXCEPT ![t] = @ + 1]
    /\ result' = [result EXCEPT ![t] = [op |-> "get_state", key |-> k, val |-> dict_get(state, k)]]
    /\ UNCHANGED <<pc, sec, lines, wmVars>>
    /\ Observe(t)
    /\ UNCHANGED <<added, recorded, clears, sets, hwVars, chatVars, mainVars>>

update_user_preference(t, k, v) ==
    /\ CanCall(t)
    /\ user_preferences' = dict_set(user_preferences, k, v)
    /\ UNCHANGED <<state, facts, hardware_events>>
    /\ Called(t) /\ Observe(t)
    /\ UNCHANGED <<added, recorded, clears, sets, hwVars, chatVars, mainVars>>

\* get_summary is entered: lines = []
get_summary(t) ==
    /\ CanCall(t)
    /\ ops' = [ops EXCEPT ![t] = @ + 1]
    /\ pc' = [pc EXCEPT ![t] = "sum_test"]
    /\ sec' = [sec EXCEPT ![t] = 1]
    /\ lines' = [lines EXCEPT ![t] = <<>>]
    /\ result' = [result EXCEPT ![t] = NoResult]
    /\ seen' = [seen EXCEPT ![t] = <<{facts}, {hardware_events}, {state}, {user_preferences}>>]
    /\ UNCHANGED <<wmVars, added, recorded, clears, sets, hwVars, chatVars, mainVars>>

\* a line has been appended: go on with the next one, or join and return
SummaryNext(t, ls) ==
    IF sec[t] = 4
    THEN /\ result' = [result EXCEPT ![t] = [op |-> "get_summary", key |-> None, val |-> ls]]
         /\ lines' = [lines EXCEPT ![t] = <<>>]
         /\ sec' = [sec EXCEPT ![t] = 0]
         /\ pc' = [pc EXCEPT ![t] = "idle"]
    ELSE /\ lines' = [lines EXCEPT ![t] = ls]
         /\ sec' = [sec EXCEPT ![t] = @ + 1]
         /\ pc' = [pc EXCEPT ![t] = "sum_test"]
         /\ UNCHANGED result

\* "... if self.<collection> else <text>": the truth test of the collection
SummaryTest(t) ==
    /\ pc[t] = "sum_test"
    /\ IF Collection(sec[t]) # <<>>
       THEN /\ pc' = [pc EXCEPT ![t] = "sum_read"]
            /\ UNCHANGED <<sec, lines, result>>
       ELSE SummaryNext(t, Append(lines[t], EmptyText(sec[t])))
    /\ UNCHANGED <<ops, seen, wmVars, added, recorded, clears, sets, hwVars, chatVars, mainVars>>

\* a read that consumes the facts it reports
SummaryRead_draining(t) ==
    /\ pc[t] = "sum_read"
    /\ SummaryNext(t, Append(lines[t], SectionText(sec[t], Collection(sec[t]))))
    /\ facts' = IF sec[t] = 1 THEN <<>> ELSE facts
    /\ UNCHANGED <<ops, seen, state, user_preferences, hardware_events,
                   added, recorded, clears, sets, hwVars, chatVars, mainVars>>

\* the true branch: the collection is read again and formatted
SummaryRead(t) ==
    /\ pc[t] = "sum_read"
    /\ SummaryNext(t, Append(lines[t], SectionText(sec[t], Collection(sec[t]))))
    /\ UNCHANGED <<ops, seen, wmVars, added, recorded, clears, sets, hwVars, chatVars, mainVars>>

\* clear() is entered and runs self.state.clear()
clear_state(t) ==
    /\ CanCall(t)
    /\ ops' = [ops EXCEPT ![t] = @ + 1]
    /\ result' = [result EXCEPT ![t] = NoResult]
    /\ pc' = [pc EXCEPT ![t] = "clear_facts"]
    /\ state' = <<>>
    /\ sets' = [k \in Keys |-> <<>>]
    /\ clears' = clears + 1
    /\ UNCHANGED <<facts, user_preferences, hardware_events, sec, lines>>
    /\ Observe(t)
    /\ UNCHANGED <<added, recorded, hwVars, chatVars, mainVars>>

\* self.facts.clear()
clear_facts(t) ==
    /\ pc[t] = "clear_facts"
    /\ pc' = [pc EXCEPT ![t] = "clear_events"]
    /\ facts' = <<>>
    /\ UNCHANGED <<state, user_preferences, hardware_events, ops, sec, lines, result>>
    /\ Observe(t)
    /\ UNCHANGED <<added, recorded, clears, sets, hwVars, chatVars, mainVars>>

\* self.hardware_events.clear()
clear_hardware_events(t) ==
    /\ pc[t] = "clear_events"
    /\ pc' = [pc EXCEPT ![t] = "clear_prefs"]
    /\ hardware_events' = <<>>
    /\ UNCHANGED <<state, facts, user_preferences, ops, sec, lines, result>>
    /\ Observe(t)
    /\ UNCHANGED <<added, recorded, clears, sets, hwVars, chatVars, mainVars>>

\* self.user_preferences.clear(), and clear() returns
clear_user_preferences(t) ==
    /\ pc[t] = "clear_prefs"
    /\ pc' = [pc EXCEPT ![t] = "idle"]
    /\ user_preferences' = <<>>
    /\ UNCHANGED <<state, facts, hardware_events, ops, sec, lines, result>>
    /\ Observe(t)
    /\ UNCHANGED <<added, recorded, clears, sets, hwVars, chatVars, mainVars>>

----------------------------------------------------------------------------
(* Initial values *)

\* WorldModel.__init__
InitWorldModel ==
    /\ state = <<>>
    /\ facts = <<>>
    /\ user_preferences = <<>>
    /\ hardware_events = <<>>

InitCallers ==
    /\ pc = [t \in Threads |-> "idle"]
    /\ ops = [t \in Threads |-> 0]
    /\ sec = [t \in Threads |-> 0]
    /\ lines = [t \in Threads |-> <<>>]
    /\ result = [t \in Threads |-> NoResult]
    /\ added = [t \in Threads |-> 0]
    /\ recorded = [t \in Threads |-> 0]
    /\ clears = 0
    /\ sets = [k \in Keys |-> <<>>]
    /\ seen = [t \in Threads |-> NoSeen]

\* HardwareIntegration.__init__: no monitor thread, no callback
InitHardware ==
    /\ stop_monitoring_flag = FALSE
    /\ event_callbacks = <<>>
    /\ mpc = "none"
    /\ dpc = "ready"
    /\ button_state = Unbound
    /\ motion_state = Unbound
    /\ new_button_state = Unbound
    /\ new_motion_state = Unbound
    /\ event_type = None
    /\ polls = 0
    /\ faults = 0
    /\ observed = [c \in Components |-> None]
    /\ callback = None
    /\ alive = 0
    /\ elapsed = 0
    /\ missed = {}

InitHardwareIdle == InitHardware /\ pins = [button |-> HIGH, motion |-> LOW, led |-> LOW]

\* ChatHandlerWorld.__init__ but for max_history
InitChat ==
    /\ conversation_history = <<>>
    /\ messages = <<>>
    /\ response_text = <<>>
    /\ turn = "idle"
    /\ clock = 0
    /\ outcome = NoOutcome
    /\ logged = <<>>
    /\ attempt = 0

InitChatIdle == InitChat /\ max_history = DefaultMaxHistory

\* AIAssistant.__init__: running is False, start() is not yet called
InitMain ==
    /\ running = FALSE
    /\ mainpc = "created"
    /\ user_input = <<>>
    /\ cleanups = 0

Init == InitWorldModel /\ InitCallers /\ InitHardwareIdle /\ InitChatIdle /\ InitMain

Next ==
    \/ \E t \in Threads : add_fact(t)
    \/ \E t \in Threads : update_hardware_event(t)
    \/ \E t \in Threads, k \in Keys, v \in Values : set_state(t, k, v)
    \/ \E t \in Threads, k \in Keys : get_state(t, k)
    \/ \E t \in Threads, k \in Keys, v \in Values : update_user_preference(t, k, v)
    \/ \E t \in Threads : get_summary(t)
    \/ \E t \in Threads : SummaryTest(t)
    \/ \E t \in Threads : SummaryRead(t)
    \/ \E t \in Threads : clear_state(t)
    \/ \E t \in Threads : clear_facts(t)
    \/ \E t \in Threads : clear_hardware_events(t)
    \/ \E t \in Threads : clear_user_preferences(t)

Spec == Init /\ [][Next]_vars

----------------------------------------------------------------------------
(* HardwareIntegration: the monitor thread, the callbacks and set_led *)

\* what the hardware actions leave alone
idleCallers == <<callVars, histVars, chatVars, mainVars>>

\* the locals of _monitor_loop and _handle_event
locals == <<button_state, motion_state, new_button_state, new_motion_state, event_type,
            callback>>

\* the sleeps of lines 156 and 160 and of _handle_motion_detected, in tenths
\* of a second
PollSleep == 1
BackoffSleep == 10
CallbackSleep == 5

\* the sleep the loop is in at a position, in tenths of a second
Slept(position) ==
    CASE position = "sleep" -> PollSleep
      [] position = "backoff" -> BackoffSleep
      [] OTHER -> 0

\* the thread ends and its frame with it
ThreadEnds ==
    /\ mpc' = "dead"
    /\ button_state' = Unbound
    /\ motion_state' = Unbound
    /\ new_button_state' = Unbound
    /\ new_motion_state' = Unbound
    /\ event_type' = None
    /\ callback' = None
    /\ alive' = alive - 1
    /\ elapsed' = 0
    /\ missed' = {}

IsAlive == mpc \notin {"none", "dead"}

\* self.world_model.update_hardware_state(...) raises AttributeError: class
\* WorldModel defines no such method
update_hardware_state_raises == "update_hardware_state" \notin WorldModelMethods

\* the body of set_led(st) when GPIO.output succeeds: the pin is written, the
\* update_hardware_state call raises, the handler at line 207 logs it and the
\* update_hardware_event call of line 205 is not reached
set_led_written(st) ==
    /\ pins' = [pins EXCEPT !.led = IF st THEN HIGH ELSE LOW]
    /\ update_hardware_state_raises
    /\ observed' = [observed EXCEPT !["led"] = IF st THEN "on" ELSE "off"]
    /\ UNCHANGED <<wmVars, faults>>

\* the body of set_led(st) when GPIO.output raises: logged at line 208
set_led_failed(st) ==
    /\ faults < MaxFaults
    /\ faults' = faults + 1
    /\ UNCHANGED <<wmVars, pins, observed>>

\* a start_monitoring() with no test of line 109: a thread is spawned whether
\* or not one is alive
start_monitoring_unguarded ==
    /\ dpc = "ready"
    /\ stop_monitoring_flag' = FALSE
    /\ mpc' = "init_button"
    /\ alive' = alive + 1
    /\ UNCHANGED <<wmVars, pins, event_callbacks, dpc, locals, polls, faults,
                   observed, idleCallers, elapsed, missed>>

\* a start_monitoring() whose thread goes straight to the loop, without the
\* reads of lines 130-131
start_monitoring_resumed ==
    /\ dpc = "ready"
    /\ IF IsAlive
       THEN UNCHANGED <<stop_monitoring_flag, mpc, alive>>
       ELSE /\ stop_monitoring_flag' = FALSE
            /\ mpc' = "while"
            /\ alive' = alive + 1
    /\ UNCHANGED <<wmVars, pins, event_callbacks, dpc, locals, polls, faults,
                   observed, idleCallers, elapsed, missed>>

\* start_monitoring()
start_monitoring ==
    /\ dpc = "ready"
    /\ IF IsAlive
       THEN UNCHANGED <<stop_monitoring_flag, mpc, alive>>
       ELSE /\ stop_monitoring_flag' = FALSE
            /\ mpc' = "init_button"
            /\ alive' = alive + 1
    /\ UNCHANGED <<wmVars, pins, event_callbacks, dpc, locals, polls, faults,
                   observed, idleCallers,
                   elapsed, missed>>

\* a stop_monitoring() with no test of line 121: the stop signal is set and
\* the join is made whether or not a thread was ever created
stop_monitoring_unguarded ==
    /\ dpc = "ready"
    /\ stop_monitoring_flag' = TRUE
    /\ dpc' = "joining"
    /\ elapsed' = 0
    /\ UNCHANGED <<wmVars, pins, event_callbacks, mpc, button_state, motion_state,
                   new_button_state, new_motion_state, event_type, polls, faults,
                   observed, idleCallers,
                   callback, alive, missed>>

\* stop_monitoring(): the stop signal is set and the caller joins the thread
stop_monitoring ==
    /\ dpc = "ready"
    /\ IF mpc # "none"
       THEN stop_monitoring_flag' = TRUE /\ dpc' = "joining" /\ elapsed' = 0
       ELSE UNCHANGED <<stop_monitoring_flag, dpc, elapsed>>
    /\ UNCHANGED <<wmVars, pins, event_callbacks, mpc, button_state, motion_state,
                   new_button_state, new_motion_state, event_type, polls, faults,
                   observed, idleCallers,
                   callback, alive, missed>>

\* a join that gives up waiting: it returns whether or not the thread ended
join_returns_early ==
    /\ dpc = "joining"
    /\ dpc' = "ready"
    /\ UNCHANGED <<wmVars, pins, stop_monitoring_flag, event_callbacks, mpc,
                   button_state, motion_state, new_button_state, new_motion_state,
                   event_type, polls, faults, observed, idleCallers,
                   callback, alive, elapsed, missed>>

\* self._monitor_thread.join() returns
join_returns ==
    /\ dpc = "joining"
    /\ ~IsAlive
    /\ dpc' = "ready"
    /\ UNCHANGED <<wmVars, pins, stop_monitoring_flag, event_callbacks, mpc,
                   button_state, motion_state, new_button_state, new_motion_state,
                   event_type, polls, faults, observed, idleCallers,
                   callback, alive, elapsed, missed>>

\* register_callback(e, h)
register_callback(e, h) ==
    /\ dpc = "ready"
    /\ event_callbacks' = dict_set(event_callbacks, e, h)
    /\ UNCHANGED <<wmVars, pins, stop_monitoring_flag, mpc, dpc, button_state,
                   motion_state, new_button_state, new_motion_state, event_type,
                   polls, faults, observed, idleCallers,
                   callback, alive, elapsed, missed>>

\* set_led(st) called by the dialogue thread
set_led(st) ==
    /\ dpc = "ready"
    /\ set_led_written(st) \/ set_led_failed(st)
    /\ UNCHANGED <<stop_monitoring_flag, event_callbacks, mpc, dpc, button_state,
                   motion_state, new_button_state, new_motion_state, event_type,
                   polls, idleCallers,
                   callback, alive, elapsed, missed>>

\* the button or the motion sensor changes its level
PinChange(p) ==
    /\ pins' = [pins EXCEPT ![p] = 1 - @]
    /\ UNCHANGED <<wmVars, stop_monitoring_flag, event_callbacks, mpc, dpc,
                   button_state, motion_state, new_button_state, new_motion_state,
                   event_type, polls, faults, observed, idleCallers,
                   callback, alive, elapsed>>

\* a change of level that is not recorded in missed
PinChangeUntracked(p) == PinChange(p) /\ UNCHANGED missed

\* a change of level that is recorded in missed when no loop is alive after
\* a loop has ended
PinChangeTracked(p) ==
    /\ PinChange(p)
    /\ missed' = IF mpc = "dead" THEN missed \cup {p} ELSE missed

\* line 130, outside the try: an exception of the read ends the thread
ReadInitialButton ==
    /\ mpc = "init_button"
    /\ \/ /\ button_state' = pins.button
          /\ mpc' = "init_motion"
          /\ UNCHANGED <<faults, motion_state, new_button_state, new_motion_state,
                         event_type, callback, alive, elapsed, missed>>
       \/ /\ faults < MaxFaults
          /\ faults' = faults + 1
          /\ ThreadEnds
    /\ UNCHANGED <<wmVars, pins, stop_monitoring_flag, event_callbacks, dpc,
                   polls, observed, idleCallers>>

\* line 131
ReadInitialMotion ==
    /\ mpc = "init_motion"
    /\ \/ /\ motion_state' = pins.motion
          /\ mpc' = "while"
          /\ UNCHANGED <<faults, button_state, new_button_state, new_motion_state,
                         event_type, callback, alive, elapsed, missed>>
       \/ /\ faults < MaxFaults
          /\ faults' = faults + 1
          /\ ThreadEnds
    /\ UNCHANGED <<wmVars, pins, stop_monitoring_flag, event_callbacks, dpc,
                   polls, observed, idleCallers>>

\* line 133, reached at first, after the sleep of line 156 and after the
\* sleep of line 160
WhileTest ==
    /\ mpc \in {"while", "sleep", "backoff"}
    /\ IF stop_monitoring_flag
       THEN ThreadEnds /\ UNCHANGED polls
       ELSE /\ polls < MaxPolls
            /\ polls' = polls + 1
            /\ mpc' = "read_button"
            /\ missed' = IF mpc = "while" THEN missed ELSE {}
            /\ UNCHANGED <<locals, alive, elapsed>>
    /\ UNCHANGED <<wmVars, pins, stop_monitoring_flag, event_callbacks, dpc,
                   faults, observed, idleCallers>>

\* lines 136-143 up to the call made on a transition
ReadButton ==
    /\ mpc = "read_button"
    /\ \/ /\ new_button_state' = pins.button
          /\ IF pins.button # button_state
             THEN IF pins.button = LOW
                  THEN mpc' = "handle_event" /\ event_type' = "button_press"
                  ELSE mpc' = "update_button" /\ UNCHANGED event_type
             ELSE mpc' = "read_motion" /\ UNCHANGED event_type
          /\ UNCHANGED faults
       \/ /\ faults < MaxFaults
          /\ faults' = faults + 1
          /\ mpc' = "backoff"
          /\ UNCHANGED <<new_button_state, event_type>>
    /\ UNCHANGED <<wmVars, pins, stop_monitoring_flag, event_callbacks, dpc,
                   button_state, motion_state, new_motion_state, polls, observed,
                   idleCallers,
                   callback, alive, elapsed, missed>>

\* lines 147-153 up to the call made on a transition; line 156 otherwise
ReadMotion ==
    /\ mpc = "read_motion"
    /\ \/ /\ new_motion_state' = pins.motion
          /\ IF pins.motion # motion_state
             THEN IF pins.motion = HIGH
                  THEN mpc' = "handle_event" /\ event_type' = "motion_detected"
                  ELSE mpc' = "update_motion" /\ UNCHANGED event_type
             ELSE mpc' = "sleep" /\ UNCHANGED event_type
          /\ UNCHANGED faults
       \/ /\ faults < MaxFaults
          /\ faults' = faults + 1
          /\ mpc' = "backoff"
          /\ UNCHANGED <<new_motion_state, event_type>>
    /\ UNCHANGED <<wmVars, pins, stop_monitoring_flag, event_callbacks, dpc,
                   button_state, motion_state, new_button_state, polls, observed,
                   idleCallers,
                   callback, alive, elapsed, missed>>

\* a _handle_event that records the event only when a callback is registered
\* for its type
HandleEvent_registered_only ==
    /\ mpc = "handle_event"
    /\ hardware_events' =
          IF dict_index(event_callbacks, event_type) # 0
          THEN list_append(hardware_events, <<"Hardware event: ", event_type>>)
          ELSE hardware_events
    /\ mpc' = "dispatch"
    /\ UNCHANGED <<state, facts, user_preferences, pins, stop_monitoring_flag,
                   event_callbacks, dpc, button_state, motion_state,
                   new_button_state, new_motion_state, event_type, polls, faults,
                   observed, idleCallers,
                   callback, alive, elapsed, missed>>

\* a _handle_event that records the event only while no language-model call
\* is in flight
HandleEvent_waits ==
    /\ mpc = "handle_event"
    /\ turn = "idle"
    /\ hardware_events' = list_append(hardware_events, <<"Hardware event: ", event_type>>)
    /\ mpc' = "dispatch"
    /\ UNCHANGED <<state, facts, user_preferences, pins, stop_monitoring_flag,
                   event_callbacks, dpc, button_state, motion_state,
                   new_button_state, new_motion_state, event_type, polls, faults,
                   observed, idleCallers,
                   callback, alive, elapsed, missed>>

\* _handle_event, lines 169-173: the event is appended to the WorldModel
HandleEvent ==
    /\ mpc = "handle_event"
    /\ hardware_events' = list_append(hardware_events, <<"Hardware event: ", event_type>>)
    /\ mpc' = "dispatch"
    /\ UNCHANGED <<state, facts, user_preferences, pins, stop_monitoring_flag,
                   event_callbacks, dpc, button_state, motion_state,
                   new_button_state, new_motion_state, event_type, polls, faults,
                   observed, idleCallers,
                   callback, alive, elapsed, missed>>

\* where _monitor_loop goes on after _handle_event returned
AfterEvent == IF event_type = "button_press" THEN "update_button" ELSE "update_motion"

\* _handle_event, lines 176-178: the callback of the event type is called
Dispatch ==
    /\ mpc = "dispatch"
    /\ IF dict_index(event_callbacks, event_type) # 0
       THEN /\ callback' = dict_get(event_callbacks, event_type)
            /\ mpc' = IF callback' = failing_callback
                      THEN "callback_raises" ELSE "callback_led_on"
       ELSE /\ mpc' = AfterEvent
            /\ UNCHANGED callback
    /\ UNCHANGED <<wmVars, pins, stop_monitoring_flag, event_callbacks, dpc,
                   button_state, motion_state, new_button_state, new_motion_state,
                   event_type, polls, faults, observed, idleCallers,
                   alive, elapsed, missed>>

\* _handle_button_press / _handle_motion_detected: self.hardware.set_led(True)
CallbackLedOn ==
    /\ mpc = "callback_led_on"
    /\ set_led_written(TRUE) \/ set_led_failed(TRUE)
    /\ mpc' = "callback_led_off"
    /\ UNCHANGED <<stop_monitoring_flag, event_callbacks, dpc, button_state,
                   motion_state, new_button_state, new_motion_state, event_type,
                   polls, idleCallers,
                   callback, alive, elapsed, missed>>

\* _handle_button_press / _handle_motion_detected: self.hardware.set_led(False)
CallbackLedOff ==
    /\ mpc = "callback_led_off"
    /\ set_led_written(FALSE) \/ set_led_failed(FALSE)
    /\ mpc' = AfterEvent
    /\ elapsed' = IF stop_monitoring_flag /\ callback = "_handle_motion_detected"
                  THEN elapsed + CallbackSleep ELSE elapsed
    /\ UNCHANGED <<stop_monitoring_flag, event_callbacks, dpc, button_state,
                   motion_state, new_button_state, new_motion_state, event_type,
                   polls, idleCallers,
                   callback, alive, missed>>

\* _handle_event, lines 178-180: the callback raises, the error is logged and
\* _handle_event returns
CallbackRaises ==
    /\ mpc = "callback_raises"
    /\ mpc' = AfterEvent
    /\ UNCHANGED <<wmVars, pins, stop_monitoring_flag, event_callbacks, dpc,
                   button_state, motion_state, new_button_state, new_motion_state,
                   event_type, polls, faults, observed, callback, alive, elapsed,
                   missed, idleCallers>>

\* lines 141, 143, 151, 153: update_hardware_state raises, lines 144 and 154
\* are skipped and the handler of line 158 sleeps; the event of the iteration
\* and the callback called for it are forgotten
UpdateHardwareState ==
    /\ mpc \in {"update_button", "update_motion"}
    /\ update_hardware_state_raises
    /\ mpc' = "backoff"
    /\ observed' = IF mpc = "update_button"
                   THEN [observed EXCEPT !["button"] =
                            IF new_button_state = LOW THEN "pressed" ELSE "released"]
                   ELSE [observed EXCEPT !["motion_sensor"] =
                            IF new_motion_state = HIGH THEN "active" ELSE "inactive"]
    /\ event_type' = None
    /\ callback' = None
    /\ UNCHANGED <<wmVars, pins, stop_monitoring_flag, event_callbacks, dpc,
                   button_state, motion_state, new_button_state, new_motion_state,
                   polls, faults, idleCallers,
                   alive, elapsed, missed>>

InitHW ==
    /\ InitWorldModel /\ InitCallers /\ InitHardware /\ InitChatIdle /\ InitMain
    /\ pins \in [button : {LOW, HIGH}, motion : {LOW, HIGH}, led : {LOW}]

NextHW ==
    \/ start_monitoring
    \/ stop_monitoring
    \/ join_returns
    \/ \E r \in Registrations : register_callback(r[1], r[2])
    \/ \E st \in BOOLEAN : set_led(st)
    \/ \E p \in {"button", "motion"} : PinChangeUntracked(p)
    \/ ReadInitialButton
    \/ ReadInitialMotion
    \/ WhileTest
    \/ ReadButton
    \/ ReadMotion
    \/ HandleEvent
    \/ Dispatch
    \/ CallbackLedOn
    \/ CallbackLedOff
    \/ UpdateHardwareState

SpecHW == InitHW /\ [][NextHW]_vars

\* the monitor alone: the callbacks are any handlers, one that raises among
\* them, and no other thread drives the LED
NextMon ==
    \/ start_monitoring
    \/ stop_monitoring
    \/ join_returns
    \/ \E r \in MonitorRegistrations : register_callback(r[1], r[2])
    \/ \E p \in {"button", "motion"} : PinChangeTracked(p)
    \/ ReadInitialButton
    \/ ReadInitialMotion
    \/ WhileTest
    \/ ReadButton
    \/ ReadMotion
    \/ HandleEvent
    \/ Dispatch
    \/ CallbackLedOn
    \/ CallbackLedOff
    \/ CallbackRaises
    \/ UpdateHardwareState

SpecMon == InitHW /\ [][NextMon]_vars

----------------------------------------------------------------------------
(* ChatHandlerWorld.generate_response *)

\* l[start:]
PySliceFrom(l, start) ==
    LET n == Len(l)
        s0 == IF start < 0 THEN start + n ELSE start
        s1 == IF s0 < 0 THEN 0 ELSE IF s0 > n THEN n ELSE s0
    IN  SubSeq(l, s1 + 1, n)

\* str.lower of one piece of text
LowerPiece(w) ==
    CASE w = "You prefer" -> "you prefer"
      [] w = "Button" -> "button"
      [] w = "Dark mode" -> "dark mode"
      [] w = "Sure, " -> "sure, "
      [] w = "I learned that" -> "i learned that"
      [] w = "I noticed " -> "i noticed "
      [] w = "LED" -> "led"
      [] w = "Shutdown" -> "shutdown"
      [] w = "Sensors" -> "sensors"
      [] OTHER -> w

\* text.lower()
Lower(text) == [i \in 1..Len(text) |-> LowerPiece(text[i])]

\* sub in text
Contains(text, sub) == \E i \in 1..Len(text) : text[i] = sub

Occurrences(text, sub) == {i \in 1..Len(text) : text[i] = sub}
Smallest(S) == CHOOSE i \in S : \A j \in S : i <= j
Largest(S) == CHOOSE i \in S : \A j \in S : i >= j

\* text.split(sub, 1)[1]: the text after the first occurrence
SplitLast_first(text, sub) ==
    SubSeq(text, Smallest(Occurrences(text, sub)) + 1, Len(text))

\* text.split(sub)[-1]
SplitLast(text, sub) == SubSeq(text, Largest(Occurrences(text, sub)) + 1, Len(text))

\* text.split(sub)[1], for a text that contains sub
SplitSecond(text, sub) ==
    LET first == Smallest(Occurrences(text, sub))
        later == {i \in Occurrences(text, sub) : i > first}
    IN  SubSeq(text, first + 1, IF later = {} THEN Len(text) ELSE Smallest(later) - 1)

\* text.strip(". ")
RECURSIVE Strip(_)
Strip(text) ==
    IF text = <<>> THEN text
    ELSE IF text[1] \in StripChars THEN Strip(Tail(text))
    ELSE IF text[Len(text)] \in StripChars THEN Strip(SubSeq(text, 1, Len(text) - 1))
    ELSE text

\* a full_system_prompt that keeps the summary of the turn before
FullSystemPrompt_reused ==
    IF messages # <<>> THEN messages[1].content
    ELSE <<"SYSTEM_PROMPT", "Here is a summary of known facts and events so far:",
           SummaryOf(facts, hardware_events, state, user_preferences),
           "Use this information to provide coherent answers while respecting user context.">>

\* the full_system_prompt of lines 83-89
FullSystemPrompt ==
    <<"SYSTEM_PROMPT", "Here is a summary of known facts and events so far:",
      SummaryOf(facts, hardware_events, state, user_preferences),
      "Use this information to provide coherent answers while respecting user context.">>

\* {"role": msg["role"], "content": msg["content"]}
PromptMessage(msg) == [role |-> msg.role, content |-> msg.content]

\* lines 92-98 with the system message at the end of the list
AssembleMessages_system_last(full_system_prompt, recent_history) ==
    [i \in 1..Len(recent_history) |-> PromptMessage(recent_history[i])] \o
    <<[role |-> "system", content |-> full_system_prompt]>>

\* lines 92-98: the system message, then the recent history in its order
AssembleMessages(full_system_prompt, recent_history) ==
    <<[role |-> "system", content |-> full_system_prompt]>> \o
    [i \in 1..Len(recent_history) |-> PromptMessage(recent_history[i])]

\* api_handler.py, lines 73-79: the messages of the request, with the
\* system_prompt argument in front of them when it is not empty
FormattedMessages(msgs, system_prompt) ==
    (IF system_prompt # <<>>
     THEN <<[role |-> "system", content |-> system_prompt]>>
     ELSE <<>>) \o msgs

\* lines 103-106: the request of the call in hand; the system_prompt argument
\* is full_system_prompt, the content of the first of the messages
Request ==
    IF messages = <<>> THEN <<>>
    ELSE FormattedMessages(messages, messages[1].content)

\* what the chat actions leave alone
idleHardware == <<callVars, histVars, hwVars, mainVars>>

\* a generate_response that builds the messages before it appends the user
\* message
generate_response_stale(prompt) ==
    /\ turn = "idle"
    /\ clock < MaxHistLen
    /\ clock' = clock + 1
    /\ conversation_history' =
          list_append(conversation_history,
                      [role |-> "user", content |-> prompt, timestamp |-> clock])
    /\ messages' = AssembleMessages(FullSystemPrompt,
                                    PySliceFrom(conversation_history, -max_history))
    /\ turn' = "awaiting_reply"
    /\ outcome' = NoOutcome
    /\ attempt' = 1
    /\ UNCHANGED <<wmVars, max_history, response_text, logged, callVars, histVars, hwVars>>

\* generate_response(prompt), lines 73-100: the user message is appended and
\* the messages of the request are built
generate_response(prompt) ==
    /\ turn = "idle"
    /\ clock < MaxHistLen
    /\ clock' = clock + 1
    /\ conversation_history' =
          list_append(conversation_history,
                      [role |-> "user", content |-> prompt, timestamp |-> clock])
    /\ messages' = AssembleMessages(FullSystemPrompt,
                                    PySliceFrom(conversation_history', -max_history))
    /\ turn' = "awaiting_reply"
    /\ outcome' = NoOutcome
    /\ attempt' = 1
    /\ UNCHANGED <<wmVars, max_history, response_text, logged, callVars, histVars, hwVars>>

\* lines 103-115: the api handler returns a text and the assistant message
\* is appended
ReplyArrives(reply) ==
    /\ turn = "awaiting_reply"
    /\ response_text' = reply
    /\ clock' = clock + 1
    /\ conversation_history' =
          list_append(conversation_history,
                      [role |-> "assistant", content |-> reply, timestamp |-> clock])
    /\ turn' = "extract"
    /\ UNCHANGED <<wmVars, max_history, messages, outcome, logged, attempt,
                   idleHardware>>

\* @retry(stop=stop_after_attempt(3), ..., reraise=True) of
\* APIHandler.generate_response
stop_after_attempt == 3

\* api_handler.py, lines 45-49 and 97-107: an attempt raises, the error is
\* logged and raised to the retry decorator, which waits and calls again
AttemptFails ==
    /\ turn = "awaiting_reply"
    /\ Len(logged) < MaxFaults
    /\ attempt < stop_after_attempt
    /\ attempt' = attempt + 1
    /\ UNCHANGED <<wmVars, conversation_history, max_history, messages,
                   response_text, turn, clock, outcome, logged, idleHardware>>

\* a failure of the first attempt raised to the caller with no retry
ReplyFails_first ==
    /\ turn = "awaiting_reply"
    /\ Len(logged) < MaxFaults
    /\ attempt' = 0
    /\ turn' = "idle"
    /\ outcome' = Raised
    /\ logged' = Append(logged, "Error generating response")
    /\ UNCHANGED <<wmVars, conversation_history, max_history, messages,
                   response_text, clock, idleHardware>>

\* a failure of the api handler answered with an apology
ReplyFails_apologises ==
    /\ turn = "awaiting_reply"
    /\ Len(logged) < MaxFaults
    /\ attempt = stop_after_attempt
    /\ attempt' = 0
    /\ turn' = "idle"
    /\ outcome' = Returned(<<"Sorry">>)
    /\ logged' = Append(logged, "Error generating response")
    /\ clock' = clock + 1
    /\ conversation_history' =
          list_append(conversation_history,
                      [role |-> "assistant", content |-> <<"Sorry">>, timestamp |-> clock])
    /\ UNCHANGED <<wmVars, max_history, messages, response_text, idleHardware>>

\* lines 103-106 and 122-125: the last attempt of the api handler raises and
\* the retry decorator raises its error again; the error is logged and raised
\* again
ReplyFails ==
    /\ turn = "awaiting_reply"
    /\ Len(logged) < MaxFaults
    /\ attempt = stop_after_attempt
    /\ attempt' = 0
    /\ turn' = "idle"
    /\ outcome' = Raised
    /\ logged' = Append(logged, "Error generating response")
    /\ UNCHANGED <<wmVars, conversation_history, max_history, messages,
                   response_text, clock, idleHardware>>

\* keyword in text, for a keyword that is one word
Mentions(text, keyword) ==
    \E i \in 1..Len(text) : text[i] = keyword \/ <<keyword, text[i]>> \in Inside

\* one event for each occurrence of a keyword
RECURSIVE Mentioned_each(_, _, _)
Mentioned_each(text, k, last) ==
    IF k > last \/ k > Len(hardware_keywords) THEN <<>>
    ELSE [i \in 1..Cardinality({j \in 1..Len(text) :
                                   Mentions(<<Lower(text)[j]>>, hardware_keywords[k])}) |->
             <<"Hardware interaction mentioned: ", hardware_keywords[k]>>]
         \o Mentioned_each(text, k + 1, last)

\* the events lines 147-154 append for a reply, keywords k to last
RECURSIVE Mentioned(_, _, _)
Mentioned(text, k, last) ==
    IF k > last \/ k > Len(hardware_keywords) THEN <<>>
    ELSE (IF Mentions(Lower(text), hardware_keywords[k])
          THEN <<<<"Hardware interaction mentioned: ", hardware_keywords[k]>>>>
          ELSE <<>>) \o Mentioned(text, k + 1, last)

\* the updates of lines 136-154 in their order: add_fact,
\* update_user_preference, and one update_hardware_event for each keyword
Updates == 2 + Len(hardware_keywords)

\* the reply makes _update_world_model_from_response call its k-th update
Calls(text, k) ==
    CASE k = 1 -> Contains(text, "I learned that")
      [] k = 2 -> Contains(Lower(text), "you prefer")
      [] OTHER -> Mentions(Lower(text), hardware_keywords[k - 2])

\* the collections after the first n updates of lines 136-154
ExtractedFacts(text, n) ==
    IF n >= 1 /\ Contains(text, "I learned that")
    THEN list_append(facts, Strip(SplitLast(text, "I learned that")))
    ELSE facts

ExtractedPreferences(text, n) ==
    IF n >= 2 /\ Contains(Lower(text), "you prefer")
    THEN dict_set(user_preferences, "user_preference",
                  Strip(SplitSecond(Lower(text), "you prefer")))
    ELSE user_preferences

ExtractedEvents(text, n) == hardware_events \o Mentioned(text, 1, n - 2)

\* _update_world_model_from_response(response_text), lines 134-154, and the
\* return of line 120
UpdateWorldModelFromResponse ==
    /\ turn = "extract"
    /\ facts' = ExtractedFacts(response_text, Updates)
    /\ user_preferences' = ExtractedPreferences(response_text, Updates)
    /\ hardware_events' = ExtractedEvents(response_text, Updates)
    /\ turn' = "idle"
    /\ outcome' = Returned(response_text)
    /\ response_text' = <<>>
    /\ attempt' = 0
    /\ UNCHANGED <<state, conversation_history, max_history, messages, clock,
                   logged, idleHardware>>

\* an error of the k-th update that leaves generate_response
UpdateWorldModelRaises_propagates(k) ==
    /\ turn = "extract"
    /\ Len(logged) < MaxFaults
    /\ Calls(response_text, k)
    /\ facts' = ExtractedFacts(response_text, k - 1)
    /\ user_preferences' = ExtractedPreferences(response_text, k - 1)
    /\ hardware_events' = ExtractedEvents(response_text, k - 1)
    /\ logged' = Append(logged, "Error generating response")
    /\ turn' = "idle"
    /\ outcome' = Raised
    /\ response_text' = <<>>
    /\ attempt' = 0
    /\ UNCHANGED <<state, conversation_history, max_history, messages, clock,
                   idleHardware>>

\* _update_world_model_from_response when its k-th update raises: the
\* updates before it are made, the error is logged at line 157 and
\* swallowed, and line 120 returns the reply
UpdateWorldModelRaises(k) ==
    /\ turn = "extract"
    /\ Len(logged) < MaxFaults
    /\ Calls(response_text, k)
    /\ facts' = ExtractedFacts(response_text, k - 1)
    /\ user_preferences' = ExtractedPreferences(response_text, k - 1)
    /\ hardware_events' = ExtractedEvents(response_text, k - 1)
    /\ logged' = Append(logged, "Error updating world model")
    /\ turn' = "idle"
    /\ outcome' = Returned(response_text)
    /\ response_text' = <<>>
    /\ attempt' = 0
    /\ UNCHANGED <<state, conversation_history, max_history, messages, clock,
                   idleHardware>>

\* clear_history()
clear_history ==
    /\ turn = "idle"
    /\ conversation_history' = <<>>
    /\ UNCHANGED <<wmVars, max_history, messages, response_text, turn, clock,
                   outcome, logged, attempt, idleHardware>>

InitCtx ==
    /\ InitWorldModel /\ InitCallers /\ InitHardwareIdle /\ InitChat /\ InitMain
    /\ max_history \in 0..MaxMaxHistory

\* _handle_event of the monitor thread records an event while the dialogue
\* thread is in a turn or between two turns
MonitorRecords == ops["monitor"] < MaxEvents /\ update_hardware_event("monitor")

\* update_world_model(key, value) of the chat handler, called by the other
\* thread in the same positions
update_world_model(key, value) ==
    ops["monitor"] < MaxEvents /\ set_state("monitor", key, value)

\* a call of generate_response made outside the main loop
Ask(prompt) == generate_response(prompt) /\ UNCHANGED mainVars

NextCtx ==
    \/ \E prompt \in Prompts : Ask(prompt)
    \/ \E reply \in Replies : ReplyArrives(reply)
    \/ AttemptFails
    \/ ReplyFails
    \/ UpdateWorldModelFromResponse
    \/ \E k \in 1..Updates : UpdateWorldModelRaises(k)
    \/ clear_history
    \/ MonitorRecords
    \/ update_world_model("k1", "v1")

SpecCtx == InitCtx /\ [][NextCtx]_vars

----------------------------------------------------------------------------
(* AIAssistant: the main loop of start() and _handle_interaction *)

\* the variables of the hardware but the pins
otherHardware == <<stop_monitoring_flag, event_callbacks, mpc, dpc, button_state,
                   motion_state, new_button_state, new_motion_state, event_type,
                   polls, faults, observed, callback, alive, elapsed, missed>>

\* start(), lines 142-146
start ==
    /\ mainpc = "created"
    /\ running' = TRUE
    /\ mainpc' = "loop"
    /\ UNCHANGED <<user_input, cleanups, wmVars, callVars, histVars, hwVars, chatVars>>

\* lines 149-151 and 161-183: the loop test succeeds and _check_activation()
\* returns True, for the wake word or for the button pin it reads as low
check_activation ==
    /\ mainpc = "loop"
    /\ running
    /\ clock < MaxHistLen
    /\ \E detect_wake_word \in BOOLEAN : detect_wake_word \/ pins.button = LOW
    /\ mainpc' = "listen"
    /\ UNCHANGED <<running, user_input, cleanups, wmVars, callVars, histVars, hwVars,
                   chatVars>>

\* a _handle_interaction that looks for 'shutdown' in the utterance as it was
\* heard, with no lower()
handle_interaction_case_sensitive(heard) ==
    /\ mainpc = "listen"
    /\ user_input' = heard
    /\ IF heard = <<>>
       THEN /\ pins' = [pins EXCEPT !.led = LOW]
            /\ mainpc' = "loop"
            /\ UNCHANGED facts
       ELSE /\ pins' = [pins EXCEPT !.led = HIGH]
            /\ facts' = list_append(facts, <<"User said: ", heard>>)
            /\ mainpc' = IF Contains(heard, "shutdown") THEN "shutdown" ELSE "call"
    /\ UNCHANGED <<running, cleanups, state, user_preferences, hardware_events,
                   callVars, histVars, otherHardware, chatVars>>

\* _handle_interaction, lines 187-209: _set_led(True) writes the LED pin and
\* listen() returns heard; with no input _set_led(False) writes the pin and
\* the interaction ends; else the fact is added, and an utterance that holds
\* 'shutdown' calls shutdown()
handle_interaction(heard) ==
    /\ mainpc = "listen"
    /\ user_input' = heard
    /\ IF heard = <<>>
       THEN /\ pins' = [pins EXCEPT !.led = LOW]
            /\ mainpc' = "loop"
            /\ UNCHANGED facts
       ELSE /\ pins' = [pins EXCEPT !.led = HIGH]
            /\ facts' = list_append(facts, <<"User said: ", heard>>)
            /\ mainpc' = IF Contains(Lower(heard), "shutdown") THEN "shutdown" ELSE "call"
    /\ UNCHANGED <<running, cleanups, state, user_preferences, hardware_events,
                   callVars, histVars, otherHardware, chatVars>>

\* lines 212-218: the summary is read and generate_response is called
call_generate_response ==
    /\ mainpc = "call"
    /\ generate_response(<<"Context:\n",
                           SummaryOf(facts, hardware_events, state, user_preferences),
                           "\n\nUser input: ", user_input>>)
    /\ mainpc' = "await"
    /\ UNCHANGED <<running, user_input, cleanups>>

\* lines 220-229 and 152: generate_response has returned; the reply is
\* spoken and added as a fact, the LED is switched off
interaction_ends ==
    /\ mainpc = "await"
    /\ turn = "idle"
    /\ outcome.kind = "return"
    /\ facts' = list_append(facts, <<"Assistant responded: ", outcome.text>>)
    /\ pins' = [pins EXCEPT !.led = LOW]
    /\ mainpc' = "loop"
    /\ UNCHANGED <<running, user_input, cleanups, state, user_preferences,
                   hardware_events, callVars, histVars, otherHardware, chatVars>>

\* lines 157-159: generate_response has raised; the error leaves
\* _handle_interaction and the handler of start() logs it and calls
\* shutdown()
main_loop_error ==
    /\ mainpc = "await"
    /\ turn = "idle"
    /\ outcome.kind = "raise"
    /\ mainpc' = "shutdown"
    /\ UNCHANGED <<running, user_input, cleanups, wmVars, callVars, histVars, hwVars,
                   chatVars>>

\* what shutdown() and cleanup() leave alone of the hardware
keptHardware == <<pins, event_callbacks, mpc, dpc, button_state, motion_state,
                  new_button_state, new_motion_state, event_type, polls, faults,
                  observed, callback, alive, missed>>

\* shutdown(), lines 243-259: running is cleared, GPIO.cleanup() is called
\* by the assistant itself and the speech and chat components are cleaned up
shutdown ==
    /\ mainpc = "shutdown"
    /\ running' = FALSE
    /\ cleanups' = cleanups + 1
    /\ mainpc' = "cleanup"
    /\ UNCHANGED <<user_input, wmVars, callVars, histVars, hwVars, chatVars>>

\* shutdown(), lines 261-262, HardwareIntegration.cleanup(), lines 246-247,
\* and stop_monitoring(), lines 121-122: the stop signal is set when there is
\* a thread
cleanup ==
    /\ mainpc = "cleanup"
    /\ IF mpc # "none"
       THEN stop_monitoring_flag' = TRUE /\ elapsed' = 0
       ELSE UNCHANGED <<stop_monitoring_flag, elapsed>>
    /\ mainpc' = "join"
    /\ UNCHANGED <<running, user_input, cleanups, wmVars, callVars, histVars,
                   keptHardware, chatVars>>

\* the join of line 123 has returned: GPIO.cleanup() of
\* HardwareIntegration.cleanup(), line 248, and sys.exit(0) of shutdown(),
\* line 265
cleanup_joined ==
    /\ mainpc = "join"
    /\ ~IsAlive
    /\ cleanups' = cleanups + 1
    /\ mainpc' = "exited"
    /\ UNCHANGED <<running, user_input, wmVars, callVars, histVars, hwVars, chatVars>>

NextMain ==
    \/ start
    \/ check_activation
    \/ \E heard \in Heard : handle_interaction(heard)
    \/ call_generate_response
    \/ \E reply \in Replies : ReplyArrives(reply)
    \/ AttemptFails
    \/ ReplyFails
    \/ UpdateWorldModelFromResponse
    \/ \E k \in 1..Updates : UpdateWorldModelRaises(k)
    \/ interaction_ends
    \/ main_loop_error
    \/ shutdown
    \/ cleanup
    \/ cleanup_joined

SpecMain == Init /\ [][NextMain]_vars

\* AIAssistant.__init__, lines 57 and 97-101: the monitor thread is started
\* and the two callbacks are registered
InitApp ==
    /\ InitWorldModel /\ InitCallers /\ InitChatIdle /\ InitMain
    /\ pins \in [button : {LOW, HIGH}, motion : {LOW, HIGH}, led : {LOW}]
    /\ stop_monitoring_flag = FALSE
    /\ event_callbacks = <<<<"button_press", "_handle_button_press">>,
                           <<"motion_detected", "_handle_motion_detected">>>>
    /\ mpc = "init_button"
    /\ dpc = "ready"
    /\ button_state = Unbound
    /\ motion_state = Unbound
    /\ new_button_state = Unbound
    /\ new_motion_state = Unbound
    /\ event_type = None
    /\ polls = 0
    /\ faults = 0
    /\ observed = [c \in Components |-> None]
    /\ callback = None
    /\ alive = 1
    /\ elapsed = 0
    /\ missed = {}

\* interactions that reach the language model in a run of the assistant
MaxInteractions == 1
\* the replies of the language model in a run of the assistant
AppReplies == {<<"I noticed ", "You prefer", " ", "Dark mode", ".">>}

\* _check_activation() returns True while the run has interactions left: a
\* completed interaction stamps two messages
check_activation_counted == clock < 2 * MaxInteractions /\ check_activation

\* the assistant: the main loop and the monitor thread side by side; the
\* failures of the extraction, which generate_response contains, are
\* followed in NextMain
NextApp ==
    \/ start
    \/ check_activation_counted
    \/ \E heard \in Heard : handle_interaction(heard)
    \/ call_generate_response
    \/ \E reply \in AppReplies : ReplyArrives(reply)
    \/ AttemptFails
    \/ ReplyFails
    \/ UpdateWorldModelFromResponse
    \/ interaction_ends
    \/ main_loop_error
    \/ shutdown
    \/ cleanup
    \/ cleanup_joined
    \/ \E p \in {"button", "motion"} : PinChangeUntracked(p)
    \/ ReadInitialButton
    \/ ReadInitialMotion
    \/ WhileTest
    \/ ReadButton
    \/ ReadMotion
    \/ HandleEvent
    \/ Dispatch
    \/ CallbackLedOn
    \/ CallbackLedOff
    \/ UpdateHardwareState

SpecApp == InitApp /\ [][NextApp]_vars

----------------------------------------------------------------------------
(* Properties of the WorldModel under two concurrent callers *)

Total(f) == f["monitor"] + f["dialogue"]
ByThread(l, t) == SelectSeq(l, LAMBDA x : x[1] = t)
Range(l) == {l[i] : i \in 1..Len(l)}
StepBy(t) == ops'[t] # ops[t] \/ pc'[t] # pc[t]
IsClearStep == \E t \in Threads : StepBy(t) /\ (pc'[t] = "clear_facts" \/ InClear(t))
AllCleared == state = <<>> /\ facts = <<>> /\ hardware_events = <<>> /\ user_preferences = <<>>

\* C1: with no clear(), the fact list holds as many entries as add_fact calls
\* were made by the two threads, each call's fact exactly once.
C1_NoLostFact ==
    clears = 0 =>
        /\ Len(facts) = Total(added)
        /\ Range(facts) = UNION {{Text(t, n) : n \in 1..added[t]} : t \in Threads}

C1_Witness ==
    clears = 0 /\ added["monitor"] >= 1 /\ added["dialogue"] >= 1 /\ Len(facts) >= 3

\* C2: in facts and in hardware_events the entries of one thread stand in the
\* order of that thread's calls, and with no clear() each appended entry is
\* there exactly once.
C2_ThreadOrder ==
    \A t \in Threads :
        /\ \A i \in 1..(Len(ByThread(facts, t)) - 1) :
              ByThread(facts, t)[i + 1][2] = ByThread(facts, t)[i][2] + 1
        /\ \A i \in 1..(Len(ByThread(hardware_events, t)) - 1) :
              ByThread(hardware_events, t)[i + 1][2] = ByThread(hardware_events, t)[i][2] + 1
        /\ clears = 0 =>
              /\ ByThread(facts, t) = [n \in 1..added[t] |-> Text(t, n)]
              /\ ByThread(hardware_events, t) = [n \in 1..recorded[t] |-> Text(t, n)]

C2_Witness ==
    /\ clears = 0
    /\ Len(hardware_events) >= 3
    /\ hardware_events[1][1] # hardware_events[2][1]
    /\ hardware_events[1][1] = hardware_events[3][1]

\* C3: every line of a summary returned by get_summary is the line an
\* uninterrupted get_summary gives for a value the collection held during
\* the call.
C3_SummaryConsistent ==
    \A t \in Threads :
        result[t].op = "get_summary" =>
            \A i \in Sections : \E c \in seen[t][i] : result[t].val[i] = SummaryLine(i, c)

\* C4: between the four resets of clear() no other thread takes a step on the
\* WorldModel, and when clear() returns the four collections are empty.
C4_ClearAtomic ==
    [][\A t \in Threads :
          /\ InClear(t) => \A u \in Threads \ {t} : ~StepBy(u)
          /\ (pc[t] = "clear_prefs" /\ pc'[t] = "idle") => AllCleared']_vars

\* C5: a step that is not a step of clear() leaves facts and hardware_events
\* a prefix of what they become.
C5_AppendOnly ==
    [][IsClearStep \/ (IsPrefix(facts, facts') /\ IsPrefix(hardware_events, hardware_events'))]_vars

C5_Witness == Len(facts) >= 2 /\ Len(hardware_events) >= 1

\* C6: no step of get_summary changes a collection, and a summary returned
\* while no collection changed since the call began is the report of the
\* collections as they are, so two such calls return the same text.
C6_PureRead ==
    /\ [][\A t \in Threads :
             (StepBy(t) /\ (InSummary(t) \/ pc'[t] = "sum_test")) => UNCHANGED wmVars]_vars
    /\ [](\A t \in Threads :
             (result[t].op = "get_summary" /\ \A i \in Sections : seen[t][i] = {Collection(i)})
                 => result[t].val = SummaryOf(facts, hardware_events, state, user_preferences))

C6_Witness ==
    /\ \A t \in Threads : result[t].op = "get_summary"
    /\ facts # <<>>
    /\ \A t \in Threads : \A i \in Sections : seen[t][i] = {Collection(i)}

\* C7: get_state(k) returns the value of the last set_state(k, v) since the
\* last clear, None if there is none, and the state map holds one item for a
\* key.
LastSet(k) == IF sets[k] = <<>> THEN None ELSE sets[k][Len(sets[k])]

C7_LastWriteWins ==
    /\ [][\A t \in Threads :
             (result'[t].op = "get_state" /\ ops'[t] # ops[t])
                 => result'[t].val = LastSet(result'[t].key)]_vars
    /\ [](/\ \A k \in Keys : dict_get(state, k) = LastSet(k)
          /\ Cardinality(Range(dict_keys(state))) = Len(state))

C7_Witness ==
    \E t \in Threads :
        /\ result[t].op = "get_state"
        /\ Len(sets[result[t].key]) >= 2
        /\ sets[result[t].key][1] # sets[result[t].key][2]
        /\ result[t].val = sets[result[t].key][2]

\* C8: set_state changes state alone, update_user_preference changes
\* user_preferences alone, add_fact changes facts alone and
\* update_hardware_event changes hardware_events alone.
C8_OwnCollection ==
    [][\A t \in Threads :
          /\ (\E k \in Keys, v \in Values : set_state(t, k, v))
                => UNCHANGED <<user_preferences, facts, hardware_events>>
          /\ (\E k \in Keys, v \in Values : update_user_preference(t, k, v))
                => UNCHANGED <<state, facts, hardware_events>>
          /\ add_fact(t) => UNCHANGED <<state, user_preferences, hardware_events>>
          /\ update_hardware_event(t) => UNCHANGED <<state, user_preferences, facts>>]_vars

C8_Witness ==
    /\ dict_get(state, "k1") = "v1"
    /\ dict_get(user_preferences, "k1") = "v2"
    /\ facts # <<>>

----------------------------------------------------------------------------
(* Properties of the hardware monitor *)

\* the value the WorldModel holds for a component in a key/value collection
HeldHardwareState(c) ==
    IF dict_index(state, c) # 0 THEN dict_get(state, c) ELSE dict_get(user_preferences, c)

\* C9: once the monitor has handled a transition of a component, or set_led
\* has written the LED pin, the WorldModel holds the last value observed or
\* written for that component.
C9_HardwareStateMirrored ==
    \A c \in Components : observed[c] # None => HeldHardwareState(c) = observed[c]

----------------------------------------------------------------------------
(* Properties of the prompt assembly *)

Min(a, b) == IF a < b THEN a ELSE b

\* C10: the user/assistant messages of a prompt are the last
\* min(max_history, length of the history) entries of the history, in their
\* order, after one system message.
C10_BoundedWindow ==
    turn = "awaiting_reply" =>
        LET n == Len(conversation_history)
            k == Min(max_history, n)
        IN  /\ Len(messages) = k + 1
            /\ Len(messages) - 1 <= max_history
            /\ messages[1].role = "system"
            /\ \A i \in 1..(Len(messages) - 1) :
                  /\ n - k + i \in 1..n
                  /\ messages[i + 1] = PromptMessage(conversation_history[n - k + i])

\* C11: the messages assembled for a turn are not empty, the first is the
\* system message, and the user and assistant messages after it are entries
\* of the history in the order of the history.
C11_SystemFirstInOrder ==
    turn = "awaiting_reply" =>
        /\ Len(messages) >= 1
        /\ messages[1].role = "system"
        /\ \A i \in 2..Len(messages) : messages[i].role \in {"user", "assistant"}
        /\ \E d \in 0..Len(conversation_history) :
              \A i \in 1..(Len(messages) - 1) :
                  /\ d + i <= Len(conversation_history)
                  /\ messages[i + 1] = PromptMessage(conversation_history[d + i])

C11_Witness ==
    /\ turn = "awaiting_reply"
    /\ Len(messages) = 4
    /\ messages[2].role = "user"
    /\ messages[3].role = "assistant"
    /\ messages[2].content # messages[4].content

----------------------------------------------------------------------------
(* Properties of a dialogue turn *)

Last(l) == l[Len(l)]

\* the step that begins a call of generate_response
CallStarts == turn = "idle" /\ turn' = "awaiting_reply"
\* the step in which the reply arrives
ReplyStep == turn = "awaiting_reply" /\ turn' = "extract"
\* the step in which the call of the api handler raises
FailStep == turn = "awaiting_reply" /\ turn' = "idle"
\* the step in which extraction ends and generate_response is left
ExtractStep == turn = "extract" /\ turn' = "idle"

\* C12: the summary in the system message of a call is the summary of the
\* WorldModel as it is when the call starts, so it holds every fact, event,
\* state key and preference written before the call.
C12_SummaryRecomputed ==
    [][CallStarts =>
          LET summary == messages'[1].content[3]
          IN  /\ summary = SummaryOf(facts, hardware_events, state, user_preferences)
              /\ Range(facts) \subseteq Range(summary[1].body)
              /\ Range(hardware_events) \subseteq Range(summary[2].body)
              /\ Range(dict_keys(state)) \subseteq Range(summary[3].body)
              /\ Range(user_preferences) \subseteq Range(summary[4].body)]_vars

C12_Witness ==
    /\ turn = "awaiting_reply"
    /\ Len(conversation_history) >= 3
    /\ facts # <<>> /\ hardware_events # <<>> /\ state # <<>> /\ user_preferences # <<>>
    /\ messages[1].content[3] = SummaryOf(facts, hardware_events, state, user_preferences)

\* C13: a successful turn appends the user message, then assembles the
\* prompt (its last message is that utterance when max_history >= 1), then
\* calls the language model, then appends the reply as the assistant
\* message, then runs extraction and returns the reply; the history has
\* grown by the user message and the assistant message, in this order.
C13_TurnOrder ==
    [][/\ turn' # turn => CallStarts \/ ReplyStep \/ FailStep \/ ExtractStep
       /\ CallStarts =>
             /\ Len(conversation_history') = Len(conversation_history) + 1
             /\ IsPrefix(conversation_history, conversation_history')
             /\ Last(conversation_history').role = "user"
             /\ max_history >= 1 =>
                   Last(messages') = PromptMessage(Last(conversation_history'))
             /\ UNCHANGED wmVars
       /\ ReplyStep =>
             /\ conversation_history' =
                   Append(conversation_history,
                          [role |-> "assistant", content |-> response_text',
                           timestamp |-> clock])
             /\ Last(conversation_history).role = "user"
             /\ UNCHANGED <<wmVars, messages>>
       /\ ExtractStep =>
             /\ outcome' = Returned(response_text)
             /\ UNCHANGED conversation_history
             /\ Len(conversation_history) >= 2
             /\ conversation_history[Len(conversation_history) - 1].role = "user"
             /\ Last(conversation_history).role = "assistant"
             /\ Last(conversation_history).content = response_text]_vars

C13_Witness ==
    /\ turn = "idle"
    /\ outcome.kind = "return"
    /\ Len(conversation_history) = 4
    /\ facts # <<>>

\* C14: no step but clear_history removes or changes an entry of the
\* conversation history, so the history holds every user message and every
\* assistant reply appended since the last clear_history, also when they are
\* more than max_history; the assembly of a prompt leaves all of them.
C14_HistoryKept ==
    [][/\ \/ IsPrefix(conversation_history, conversation_history')
          \/ /\ conversation_history' = <<>>
             /\ UNCHANGED <<wmVars, messages, turn, clock, outcome>>
       /\ CallStarts => Len(conversation_history') = Len(conversation_history) + 1]_vars

C14_Witness ==
    /\ turn = "awaiting_reply"
    /\ max_history >= 1
    /\ Len(conversation_history) > max_history
    /\ Len(messages) = max_history + 1
    /\ conversation_history[1].timestamp = 0

\* C15: when the call of the language model fails, generate_response raises:
\* it returns no text, the history gets no assistant message, and no
\* collection of the WorldModel changes.
C15_FailureRaises ==
    [][FailStep =>
          /\ outcome'.kind = "raise"
          /\ outcome'.text = <<>>
          /\ UNCHANGED <<conversation_history, wmVars>>
          /\ Last(conversation_history').role = "user"]_vars

C15_Witness ==
    /\ turn = "idle"
    /\ outcome.kind = "raise"
    /\ Len(conversation_history) = 3
    /\ Last(conversation_history).role = "user"
    /\ facts # <<>>

\* C16: when an update of the WorldModel raises during extraction,
\* generate_response returns the reply and the assistant message of the
\* turn stays the last entry of the history.
C16_ExtractionSwallowed ==
    [][ExtractStep /\ logged' # logged =>
          /\ outcome' = Returned(response_text)
          /\ UNCHANGED conversation_history
          /\ Last(conversation_history').role = "assistant"
          /\ Last(conversation_history').content = response_text]_vars

C16_Witness ==
    /\ turn = "idle"
    /\ outcome.kind = "return"
    /\ logged = <<"Error updating world model">>
    /\ Last(conversation_history).role = "assistant"
    /\ Last(conversation_history).content = outcome.text
    /\ facts # <<>> /\ user_preferences = <<>>

----------------------------------------------------------------------------
(* Properties of the pattern extraction *)

\* the step of an extraction in which no update raises
Extracts == ExtractStep /\ logged' = logged

\* the text from piece i + 1 of a text to its end
After(text, i) == SubSeq(text, i + 1, Len(text))

\* f is t without the periods and spaces at its two ends
IsStripped(f, t) ==
    \E a, b \in 0..Len(t) :
        /\ a + b <= Len(t)
        /\ f = SubSeq(t, a + 1, Len(t) - b)
        /\ \A i \in 1..a : t[i] \in {".", " "}
        /\ \A i \in (Len(t) - b + 1)..Len(t) : t[i] \in {".", " "}
        /\ Len(f) > 0 => f[1] \notin {".", " "} /\ f[Len(f)] \notin {".", " "}

\* C18: a reply that contains 'I learned that' adds one fact, the text after
\* the last occurrence without the periods and spaces at its ends; a reply
\* without it adds no fact; 'Sure, I learned that the sky is blue.' adds
\* 'the sky is blue'.
C18_LearnedFact ==
    [][Extracts =>
          LET at == {i \in 1..Len(response_text) : response_text[i] = "I learned that"}
          IN  /\ at = {} => facts' = facts
              /\ at # {} =>
                    /\ Len(facts') = Len(facts) + 1
                    /\ IsPrefix(facts, facts')
                    /\ \E i \in at :
                          /\ \A j \in at : j <= i
                          /\ IsStripped(Last(facts'), After(response_text, i))
              /\ response_text = <<"Sure, ", "I learned that", " ", "the sky is blue", ".">>
                    => Last(facts') = <<"the sky is blue">>]_vars

C18_Witness ==
    /\ turn = "idle"
    /\ outcome.kind = "return"
    /\ logged = <<>>
    /\ Len(outcome.text) = 13
    /\ facts = <<<<"You prefer", " ", "LED">>>>

\* C19: a reply whose lower-cased text contains 'you prefer' sets the key
\* 'user_preference' to the text from the first occurrence to the end of the
\* reply without the periods and spaces at its ends, and extraction writes
\* no other key.
C19_PreferenceAfterFirst ==
    [][Extracts =>
          LET low == Lower(response_text)
              at == {i \in 1..Len(low) : low[i] = "you prefer"}
          IN  /\ at = {} => user_preferences' = user_preferences
              /\ at # {} =>
                    /\ \E i \in at :
                          /\ \A j \in at : i <= j
                          /\ IsStripped(dict_get(user_preferences', "user_preference"),
                                        After(low, i))
                    /\ \A k \in Range(dict_keys(user_preferences')) :
                          k = "user_preference" \/ k \in Range(dict_keys(user_preferences))
                    /\ \A k \in Range(dict_keys(user_preferences)) \ {"user_preference"} :
                          dict_get(user_preferences', k) = dict_get(user_preferences, k)]_vars

\* the indexes of the keywords that occur in a reply
Present(text) == {k \in 1..Len(hardware_keywords) : Mentions(Lower(text), hardware_keywords[k])}

\* C20: extraction appends one event 'Hardware interaction mentioned:
\* <keyword>' for each of button, motion, sensor, led that occurs in the
\* lower-cased reply, in this order, and no other event.
C20_KeywordEvents ==
    [][Extracts =>
          LET present == Present(response_text)
              n == Len(hardware_events)
          IN  /\ IsPrefix(hardware_events, hardware_events')
              /\ Len(hardware_events') = n + Cardinality(present)
              /\ \A k \in present :
                    hardware_events'[n + Cardinality({j \in present : j <= k})] =
                       <<"Hardware interaction mentioned: ", hardware_keywords[k]>>]_vars

C20_Witness ==
    /\ turn = "idle"
    /\ outcome = Returned(<<"LED", " ", "called", " ", "Sensors">>)
    /\ logged = <<>>
    /\ hardware_events = <<<<"Hardware interaction mentioned: ", "sensor">>,
                           <<"Hardware interaction mentioned: ", "led">>>>

----------------------------------------------------------------------------
(* Properties of the main loop *)

\* C17: after a call of the language model has failed, the main loop is
\* still running and the process has not ended.
C17_StaysResponsive ==
    outcome.kind = "raise" /\ turn = "idle" => running /\ mainpc # "exited"

----------------------------------------------------------------------------
(* The monitor loop: claims C21 to C30 *)

\* the loop has found a reading of a pin that differs from the level it
\* holds as the previous one and has come to the update of the hardware state
Transition ==
    \/ mpc = "update_button" /\ new_button_state # button_state
    \/ mpc = "update_motion" /\ new_motion_state # motion_state

\* C21: every reading of a pin that differs from the one before, in either
\* direction, has recorded a hardware event: when the loop has dealt with the
\* difference, the last hardware event is the event of this iteration
C21_EventPerTransition ==
    Transition =>
        /\ event_type # None
        /\ hardware_events # <<>>
        /\ Last(hardware_events) = <<"Hardware event: ", event_type>>

\* the reading of a pin before the one being taken: the last value a poll of
\* this run read, the initial reading when no poll has read the pin yet
PreviousReading(new_state, initial_state) ==
    IF new_state # Unbound THEN new_state ELSE initial_state

\* a poll reads the button, a poll reads the motion sensor
ButtonRead == mpc = "read_button" /\ mpc' # "backoff"
MotionRead == mpc = "read_motion" /\ mpc' # "backoff"

\* C22: a read that returns the value the read before it returned for the pin
\* records no event and invokes no callback: the loop does not enter
\* _handle_event for it
C22_Debounce ==
    [][/\ ButtonRead /\ pins.button = PreviousReading(new_button_state, button_state)
            => mpc' # "handle_event"
       /\ MotionRead /\ pins.motion = PreviousReading(new_motion_state, motion_state)
            => mpc' # "handle_event"]_vars

\* a registered callback has been looked up and is about to run
CallbackStarts == mpc \in {"callback_led_on", "callback_raises"}

\* the component an event type is about and the value of its transition
ComponentOf(e) == IF e = "button_press" THEN "button" ELSE "motion_sensor"
ValueOf(e) == IF e = "button_press" THEN "pressed" ELSE "active"

\* C23: when the callback of a transition starts, the WorldModel already
\* holds the hardware event of the transition and the new hardware state of
\* the component
C23_StoredBeforeCallback ==
    CallbackStarts =>
        /\ hardware_events # <<>>
        /\ Last(hardware_events) = <<"Hardware event: ", event_type>>
        /\ HeldHardwareState(ComponentOf(event_type)) = ValueOf(event_type)

\* a read of a pin by the monitor thread raises
PinReadRaises ==
    /\ mpc \in {"init_button", "init_motion", "read_button", "read_motion"}
    /\ faults' = faults + 1

\* C24: an exception raised by a pin read, the first reads of the loop
\* included, does not end the loop: the thread stays alive and waits the
\* backoff before it polls again
C24_ReadErrorSurvived ==
    [][PinReadRaises => IsAlive' /\ mpc' = "backoff"]_vars

\* the monitor thread leaves the update of the hardware state that follows an
\* event whose callback raised
AfterFailedCallback ==
    /\ mpc \in {"update_button", "update_motion"}
    /\ callback = failing_callback
    /\ mpc' # mpc

\* C25: an exception of a registered callback is caught inside
\* _handle_event, the loop goes on with the same iteration, and the reading
\* held as the previous one becomes the new reading, so that the next poll
\* does not dispatch the transition again
C25_CallbackErrorContained ==
    [][/\ mpc = "callback_raises" => mpc' \in {"callback_raises", AfterEvent}
       /\ AfterFailedCallback =>
            IF mpc = "update_button"
            THEN button_state' = new_button_state
            ELSE motion_state' = new_motion_state]_vars

\* the dict of callbacks is assigned
Registers == event_callbacks' # event_callbacks

\* _handle_event passes the test of line 176 or skips the call
Dispatches == mpc = "dispatch" /\ mpc' # mpc

\* C26: register_callback replaces the handler of its event type and leaves
\* the other types alone, every type has at most one handler, and an event
\* invokes the handler registered last for its type and no other
C26_LastRegistrationWins ==
    /\ [][Registers =>
            \E r \in MonitorRegistrations :
                /\ dict_get(event_callbacks, r[1]) # r[2]
                /\ dict_get(event_callbacks', r[1]) = r[2]
                /\ \A e \in EventTypes \ {r[1]} :
                      dict_get(event_callbacks', e) = dict_get(event_callbacks, e)]_vars
    /\ [][Dispatches =>
            IF dict_get(event_callbacks, event_type) # None
            THEN /\ callback' = dict_get(event_callbacks, event_type)
                 /\ mpc' \in {"callback_led_on", "callback_raises"}
            ELSE callback' = None /\ mpc' = AfterEvent]_vars
    /\ [](Cardinality(Range(dict_keys(event_callbacks))) = Len(event_callbacks))

\* the callback that raises is called for a button press after the LED was
\* driven by the callback it replaced, with the motion callback still there
C26_Witness ==
    /\ mpc = "callback_raises"
    /\ callback = failing_callback
    /\ observed["led"] # None
    /\ \A i \in 1..Len(hardware_events) :
          hardware_events[i] = <<"Hardware event: ", "button_press">>
    /\ dict_get(event_callbacks, "motion_detected") = "_handle_motion_detected"

\* a monitor thread is spawned
Spawns == alive' > alive

\* C27: at most one polling loop is alive; a loop is spawned only when none
\* is alive, with the stop signal cleared, and it starts at its first read
C27_SingleLoop ==
    /\ [](alive <= 1 /\ (IsAlive <=> alive = 1))
    /\ [][Spawns =>
            /\ alive = 0
            /\ ~IsAlive
            /\ alive' = 1
            /\ mpc' = "init_button"
            /\ ~stop_monitoring_flag']_vars

\* a loop spawned after an earlier one ended is polling while the caller is
\* free to call start_monitoring again
C27_Witness ==
    /\ alive = 1
    /\ mpc = "read_button"
    /\ dpc = "ready"
    /\ missed # {}

\* stop_monitoring returns to its caller
StopReturns == dpc = "joining" /\ dpc' = "ready"

\* stop_monitoring has returned and start_monitoring has not been called since
Stopped == stop_monitoring_flag /\ dpc = "ready"

\* what the monitor thread reads, appends to and calls
monitored == <<hardware_events, locals, polls, mpc>>

\* C28: stop_monitoring returns only after the loop has ended; from then on
\* no loop is alive, and while none is alive no pin is read, no event is
\* appended and no callback is called until a loop is spawned again
C28_StopJoins ==
    /\ [][StopReturns => ~IsAlive /\ ~IsAlive']_vars
    /\ [](Stopped => ~IsAlive /\ alive = 0)
    /\ [][~IsAlive /\ ~Spawns => UNCHANGED monitored]_vars

\* stop_monitoring has returned after a loop that polled and recorded an
\* event, with no failed read, and the loop is gone
C28_Witness ==
    /\ Stopped
    /\ mpc = "dead"
    /\ polls > 0
    /\ faults = 0
    /\ hardware_events # <<>>

\* C29: once the stop signal is set the loop tests it within one poll
\* interval, whatever it is doing: the sleeps it has finished since the
\* signal was set and the one it is in add up to one poll interval at most
C29_StopObservedInOnePoll ==
    stop_monitoring_flag /\ IsAlive => elapsed + Slept(mpc) <= PollSleep

Levels == {LOW, HIGH}

\* the frame of a loop that has read nothing yet
FreshLocals ==
    /\ button_state = Unbound /\ motion_state = Unbound
    /\ new_button_state = Unbound /\ new_motion_state = Unbound
    /\ event_type = None /\ callback = None

\* C30: a start after a stop is a fresh run: the stop signal is cleared, a
\* loop is alive and holds nothing of the run before; the levels it compares
\* its readings with are read by the new run, so an event is recorded only
\* for a reading that differs from a reading of this run, never for a change
\* of a pin made while no loop was alive
C30_FreshRestart ==
    /\ [][Spawns => ~stop_monitoring_flag' /\ IsAlive' /\ FreshLocals']_vars
    /\ [][/\ mpc = "init_button" /\ mpc' = "init_motion" => button_state' = pins.button
          /\ mpc = "init_motion" /\ mpc' = "while" => motion_state' = pins.motion]_vars
    /\ [](mpc = "handle_event" =>
            IF event_type = "button_press"
            THEN button_state = HIGH /\ new_button_state = LOW
            ELSE motion_state = LOW /\ new_motion_state = HIGH)
    /\ [](IsAlive /\ mpc \notin {"init_button", "init_motion"} =>
            button_state \in Levels /\ motion_state \in Levels)

\* the button was pressed while no loop was alive after a stop; the loop
\* started next has finished its first poll with the button still pressed and
\* has recorded no event
C30_Witness ==
    /\ missed = {"button"}
    /\ faults = 0
    /\ mpc = "sleep"
    /\ ~stop_monitoring_flag
    /\ pins.button = LOW
    /\ button_state = LOW
    /\ hardware_events = <<>>

----------------------------------------------------------------------------
(* The request to the language model: claims C34 to C36 *)

\* the retry decorator calls APIHandler.generate_response again
Retries == attempt >= 1 /\ attempt' = attempt + 1

\* C34: one call of the api handler makes at most three attempts; an attempt
\* that succeeds ends the call with its text, the error is raised to the
\* caller only when the third attempt has failed, and a retry appends nothing
\* to the history: the user message is appended once, when the turn begins
C34_ThreeAttempts ==
    /\ [](attempt \in 0..stop_after_attempt)
    /\ [](turn = "awaiting_reply" <=> attempt # 0 /\ turn # "extract")
    /\ [][CallStarts =>
            /\ attempt' = 1
            /\ Len(conversation_history') = Len(conversation_history) + 1]_vars
    /\ [][Retries =>
            UNCHANGED <<conversation_history, wmVars, messages, turn, outcome>>]_vars
    /\ [][ReplyStep =>
            /\ attempt' = attempt
            /\ Last(conversation_history').content = response_text']_vars
    /\ [][FailStep => attempt = stop_after_attempt /\ outcome'.kind = "raise"]_vars

\* the third attempt of the first turn has succeeded: the history holds the
\* user message once and the reply
C34_Witness ==
    /\ turn = "extract"
    /\ attempt = stop_after_attempt
    /\ Len(conversation_history) = 2
    /\ conversation_history[1].role = "user"
    /\ conversation_history[2].content = response_text

\* the positions of the system messages in a list of messages
SystemMessages(msgs) == {i \in 1..Len(msgs) : msgs[i].role = "system"}

\* C35: the request that reaches the language model for a turn holds one
\* system message, and it is the first message
C35_OneSystemMessage ==
    turn = "awaiting_reply" => SystemMessages(Request) = {1}

\* the last two entries of a list of messages are user messages
EndsWithTwoUserMessages(msgs) ==
    /\ Len(msgs) >= 2
    /\ msgs[Len(msgs) - 1].role = "user"
    /\ msgs[Len(msgs)].role = "user"

\* C36: the steps of a turn whose call fails, the retries and the failure,
\* leave the history and the collections of the WorldModel as they are, so
\* the turn leaves the history longer by its user message alone; the turn
\* that follows it appends its user message after that one, and its prompt
\* ends with two user messages when it holds two entries of the history
C36_FailedTurnState ==
    /\ [][Retries \/ FailStep => UNCHANGED <<conversation_history, wmVars>>]_vars
    /\ [](turn = "awaiting_reply" => Last(conversation_history).role = "user")
    /\ [](turn = "idle" /\ outcome.kind = "raise" /\ conversation_history # <<>>
             => Last(conversation_history).role = "user")
    /\ [][CallStarts /\ outcome.kind = "raise" /\ conversation_history # <<>> =>
            /\ EndsWithTwoUserMessages(conversation_history')
            /\ max_history >= 2 => EndsWithTwoUserMessages(messages')]_vars

\* the turn after a failed one is waiting for its reply with a prompt that
\* ends with the two user messages
C36_Witness ==
    /\ turn = "awaiting_reply"
    /\ logged # <<>>
    /\ Len(conversation_history) = 2
    /\ EndsWithTwoUserMessages(messages)
    /\ facts = <<>> /\ hardware_events = <<>> /\ state = <<>> /\ user_preferences = <<>>

----------------------------------------------------------------------------
(* Events without a callback, and stop_monitoring in every state: claims C37
   and C40 *)

\* _handle_event records the event of the iteration
Records == mpc = "handle_event" /\ mpc' = "dispatch"

\* C37: a detected press or motion is appended to hardware_events whether or
\* not a callback is registered for its type; the callback called for an
\* event is the one registered when the event is dispatched, so a
\* registration changes nothing for an event already dispatched; an event
\* with no callback is recorded and the loop goes on with nothing else done
C37_RecordedWithoutCallback ==
    /\ [][mpc = "handle_event" /\ mpc' # mpc =>
            /\ Records
            /\ hardware_events' =
                  Append(hardware_events, <<"Hardware event: ", event_type>>)]_vars
    /\ [][Registers => UNCHANGED <<callback, mpc, event_type, hardware_events>>]_vars
    /\ [][Dispatches /\ dict_index(event_callbacks, event_type) = 0 =>
            /\ mpc' = AfterEvent
            /\ UNCHANGED <<callback, wmVars, pins, observed, faults, event_callbacks>>]_vars
    /\ [](CallbackStarts => callback # None)

\* a press was recorded and dispatched with no callback registered for any
\* type, and the loop has gone on
C37_Witness ==
    /\ event_callbacks = <<>>
    /\ mpc = "update_button"
    /\ event_type = "button_press"
    /\ callback = None
    /\ Last(hardware_events) = <<"Hardware event: ", "button_press">>

\* stop_monitoring is called and finds a thread to join
StopJoins == dpc = "ready" /\ dpc' = "joining"

\* C40: stop_monitoring is safe whatever the monitor is doing: before any
\* start_monitoring it sets nothing and joins nothing; called when the loop
\* has exited it changes nothing of the loop, its join can return at once and
\* when it has returned the monitor is stopped
C40_StopAlwaysSafe ==
    /\ [](mpc = "none" => dpc = "ready" /\ ~stop_monitoring_flag /\ alive = 0)
    /\ [](dpc = "joining" /\ ~IsAlive => ENABLED join_returns)
    /\ [][StopJoins /\ ~IsAlive => ~IsAlive' /\ alive' = 0 /\ UNCHANGED monitored]_vars
    /\ [][StopReturns => Stopped' /\ ~IsAlive' /\ UNCHANGED monitored]_vars

\* stop_monitoring was called after the loop ended on its own, with a failed
\* first read, and is about to return
C40_Witness ==
    /\ dpc = "joining"
    /\ mpc = "dead"
    /\ polls = 0
    /\ faults = 1
    /\ stop_monitoring_flag

-----------------------------------------------------------------------------
(* Shutdown, pin ownership and the two loops: claims C31 to C33, C38, C39 *)

\* C31: whichever trigger starts shutdown, the shutdown path releases the
\* pins exactly once and stops the monitor: GPIO.cleanup() is never called a
\* second time, and when the assistant has exited it was called once and the
\* monitor thread has ended
C31_ReleasedOnce ==
    /\ cleanups <= 1
    /\ mainpc = "exited" => cleanups = 1 /\ ~IsAlive

\* a step of the dialogue loop
DialogueStep == mainpc' # mainpc

\* C32: every write of a pin is made by HardwareIntegration: no step of the
\* dialogue loop changes the level of a pin
C32_PinsOwnedByMonitor == [][DialogueStep => pins' = pins]_vars

\* the dialogue loop is suspended in listen() or in the language-model call
Suspended == mainpc = "listen" \/ (mainpc = "await" /\ turn = "awaiting_reply")

C38_StoppedBeforeRelease == cleanups > 0 => stop_monitoring_flag /\ ~IsAlive

\* listen() returns
Listens == mainpc = "listen" /\ mainpc' # "listen"

\* C39: an utterance that holds 'shutdown' in any case triggers shutdown
\* with no generate_response call and no message appended to the history,
\* and no call is made once shutdown has begun; when listen() returns
\* nothing the interaction ends with no call, no fact added and the LED off
C39_ShutdownNeverAsked ==
    [][/\ Listens /\ Contains(Lower(user_input'), "shutdown")
          => mainpc' = "shutdown" /\ UNCHANGED chatVars
       /\ Listens /\ user_input' = <<>>
          => mainpc' = "loop" /\ facts' = facts /\ pins'.led = LOW /\ UNCHANGED chatVars
       /\ CallStarts
          => user_input # <<>> /\ ~Contains(Lower(user_input), "shutdown")
       /\ mainpc \in {"shutdown", "cleanup", "join", "exited"}
          => UNCHANGED chatVars]_vars

\* shutdown has begun for an utterance that holds the word with a capital
C39_Witness ==
    /\ mainpc = "shutdown"
    /\ Contains(Lower(user_input), "shutdown")
    /\ ~Contains(user_input, "shutdown")
    /\ conversation_history = <<>>

====
